---------------------------- MODULE Spec2Model ----------------------------
(***************************************************************************)
(* Model of the e-mail verification service (package main).                *)
(*                                                                         *)
(*   - verifyEmailSMTP: the SMTP probe, a sequential state machine over    *)
(*     DNS lookups and one SMTP dialogue, with its deferred Close calls.   *)
(*   - checkEmailHandler: the single-address handler.                      *)
(*   - checkBulkEmailsStreamHandler: the batch dispatcher (semaphore       *)
(*     channel, WaitGroup, writeMutex, one goroutine per address).         *)
(*   - getMXRecordsCached: the MX resolver with its process-wide cache.    *)
(*                                                                         *)
(* Strings are sequences of one-character strings, so that strings.Split   *)
(* is computed, not assumed.  Time is counted in minutes.                  *)
(***************************************************************************)
EXTENDS Integers, Sequences, FiniteSets, Bags, TLC

VARIABLES
    env,        \* the remote world: DNS behaviour of the domain, SMTP servers
    req,        \* the HTTP request being served
    hpc,        \* checkEmailHandler: position of the handler
    probe,      \* checkEmailHandler: the running verifyEmailSMTP call
    response,   \* checkEmailHandler: the JSON body sent (None before)
    dpc,        \* checkBulkEmailsStreamHandler: position of the dispatcher
    idx,        \* dispatcher: index of the next req.Emails element
    wg,         \* dispatcher: sync.WaitGroup counter
    sem,        \* dispatcher: tokens held in the sem channel
    writeMutex, \* dispatcher: TRUE while writeMutex is locked
    workers,    \* dispatcher: the live goroutines, a bag of their states
    events,     \* dispatcher: the SSE events written so far, in order
    mxCache,    \* resolver: domain -> cache entry (NoEntry when absent)
    clock,      \* resolver: wall clock, in minutes
    callers,    \* resolver: the running getMXRecordsCached calls
    history     \* resolver: the completed getMXRecordsCached calls

vars == <<env, req, hpc, probe, response, dpc, idx, wg, sem, writeMutex,
          workers, events, mxCache, clock, callers, history>>

handlerVars == <<hpc, probe, response>>
batchVars == <<dpc, idx, wg, sem, writeMutex, workers, events>>
cacheVars == <<mxCache, clock, callers, history>>

---------------------------------------------------------------------------
(* Bounds of the model.                                                    *)

\* longest e-mail string handed to the single-address handler
MaxEmailLen == 3
\* longest batch whose addresses are drawn freely from BatchEmails
MaxBatch == 2
\* longest batch of identical addresses (beyond the concurrency ceiling)
MaxLarge == 11
\* last minute of the wall clock
MaxClock == 5
\* number of getMXRecordsCached calls that are started
MaxCalls == 2

---------------------------------------------------------------------------
(* Strings.                                                                *)

Chars == {"u", "v", "@", "x"}

RECURSIVE StringsUpTo(_)
StringsUpTo(n) ==
    IF n = 0 THEN {<<>>}
    ELSE LET shorter == StringsUpTo(n - 1)
         IN  shorter \cup {Append(s, c) : s \in shorter, c \in Chars}

\* index of the first "@" of s, 0 when there is none
IndexAt(s) ==
    IF \E i \in DOMAIN s : s[i] = "@"
    THEN CHOOSE i \in DOMAIN s : s[i] = "@" /\ \A j \in 1..(i - 1) : s[j] # "@"
    ELSE 0

\* a buggy split: strings.SplitN(email, "@", 2), at most two parts
SplitN2(s) ==
    IF IndexAt(s) = 0 THEN <<s>>
    ELSE <<SubSeq(s, 1, IndexAt(s) - 1), SubSeq(s, IndexAt(s) + 1, Len(s))>>

\* strings.Split(email, "@"): the substrings between the separators
RECURSIVE Split(_)
Split(s) ==
    IF IndexAt(s) = 0 THEN <<s>>
    ELSE <<SubSeq(s, 1, IndexAt(s) - 1)>>
             \o Split(SubSeq(s, IndexAt(s) + 1, Len(s)))

\* number of "@" characters of s
CountAt(s) == Cardinality({i \in DOMAIN s : s[i] = "@"})

---------------------------------------------------------------------------
(* The remote world.                                                       *)

\* the domains the DNS knows, and their mail exchangers in preference order
\* (MovedRecords: the answer after the domain's mail has moved to mx2)
Domain == <<"x">>
Domains == {<<"x">>, <<"u">>}
MXRecords == <<"mx1", "mx2">>
MovedRecords == <<"mx2">>
Hosts == {"mx1", "mx2"}

\* the one mailbox the servers know
Mailbox == <<"u", "@", "x">>

\* how the DNS answers an MX query for a domain it knows
\*   records: the records; empty: no records; error: a lookup error;
\*   flaky: any of these or the moved records, anew at every query
DnsKinds == {"records", "empty", "error", "flaky"}

\* how an SMTP server behaves
\*   down: refuses the TCP connection      nogreet: no 220 greeting
\*   nohelo: rejects EHLO and HELO         nomail: rejects MAIL FROM
\*   norcpt: rejects every RCPT TO         accept: accepts RCPT TO of Mailbox
ServerKinds == {"down", "nogreet", "nohelo", "nomail", "norcpt", "accept"}

Envs == [dns : DnsKinds,
         smtp : {f \in [Hosts -> ServerKinds] : f["mx2"] \in {"accept", "down"}}]

\* net.LookupMX(domain): the records and the error it returns
LookupMX(domain) ==
    LET found   == [records |-> MXRecords, err |-> FALSE]
        nothing == [records |-> <<>>, err |-> FALSE]
        failed  == [records |-> <<>>, err |-> TRUE]
        moved   == [records |-> MovedRecords, err |-> FALSE]
    IN  IF domain \notin Domains THEN {failed}
        ELSE CASE env.dns = "records" -> {found}
               [] env.dns = "empty"   -> {nothing}
               [] env.dns = "error"   -> {failed}
               [] OTHER               -> {found, moved, nothing, failed}

\* net.Dial("tcp", server+":25") succeeds
DialOk(server) == env.smtp[server] # "down"
\* the server sends its 220 greeting (smtp.NewClient succeeds)
GreetOk(server) == env.smtp[server] # "nogreet"
\* the server accepts EHLO or HELO
HeloOk(server) == env.smtp[server] # "nohelo"
\* the server accepts MAIL FROM
MailOk(server) == env.smtp[server] # "nomail"
\* the server accepts RCPT TO of the address
RcptOk(server, email) ==
    env.smtp[server] \in {"accept", "nohelo"} /\ email = Mailbox

---------------------------------------------------------------------------
(* verifyEmailSMTP, one step per statement that reaches the network.       *)
(* A probe is a record: pc the next step, defers the stack of deferred     *)
(* Close calls, conn and client the state of the TCP connection and of the *)
(* smtp.Client ("none", "open", "closed"), valid and err the result,       *)
(* lookups and dials the DNS queries and TCP dials made, trace the steps   *)
(* taken.                                                                  *)

NoError == "nil"

NewProbe(email) ==
    [pc |-> "parse", email |-> email, domain |-> <<>>, mxRecords |-> <<>>,
     server |-> "none", conn |-> "none", client |-> "none",
     helloError |-> FALSE, defers |-> <<>>, valid |-> FALSE, err |-> NoError,
     lookups |-> 0, dials |-> 0, trace |-> <<>>]

\* return false, fmt.Errorf(msg)
Fail(p, msg) == [p EXCEPT !.pc = "return", !.valid = FALSE, !.err = msg]

At(p, step) == [p EXCEPT !.trace = Append(@, step)]

\* parts := strings.Split(email, "@"); len(parts) != 2
Parse(p) ==
    LET parts == Split(p.email)
        q == At(p, "parse")
    IN  IF Len(parts) # 2 THEN Fail(q, "invalid email format")
        ELSE [q EXCEPT !.pc = "mxcheck", !.domain = parts[2]]

\* mxValid, err := checkMXRecords(domain), answered by a
CheckMX(p, a) ==
    LET q == [At(p, "mxcheck") EXCEPT !.lookups = @ + 1]
        mxValid == ~a.err /\ Len(a.records) > 0
    IN  IF a.err \/ ~mxValid THEN Fail(q, "no valid MX records found")
        ELSE [q EXCEPT !.pc = "lookup"]

\* mxRecords, _ := net.LookupMX(domain), answered by a
LookupAgain(p, a) ==
    LET q == [At(p, "lookup") EXCEPT !.lookups = @ + 1]
    IN  IF Len(a.records) = 0 THEN Fail(q, "no MX records found")
        ELSE [q EXCEPT !.pc = "dial", !.mxRecords = a.records]

\* a buggy Dial step: the host is picked in turn among the records, by a
\* count that the probes of the process share
DialRoundRobin(p) ==
    LET server == p.mxRecords[(Len(events) % Len(p.mxRecords)) + 1]
        q == [At(p, "dial") EXCEPT !.server = server, !.dials = @ + 1]
    IN  IF ~DialOk(server) THEN Fail(q, "SMTP connection failed")
        ELSE [q EXCEPT !.pc = "newclient", !.conn = "open",
                       !.defers = Append(@, "conn")]

\* server := mxRecords[0].Host; conn, err := net.Dial(...); defer conn.Close()
Dial(p) ==
    LET server == p.mxRecords[1]
        q == [At(p, "dial") EXCEPT !.server = server, !.dials = @ + 1]
    IN  IF ~DialOk(server) THEN Fail(q, "SMTP connection failed")
        ELSE [q EXCEPT !.pc = "newclient", !.conn = "open",
                       !.defers = Append(@, "conn")]

\* a buggy NewClient step: the client's Close is not deferred
NewClientNoDefer(p) ==
    LET q == At(p, "newclient")
    IN  IF ~GreetOk(p.server)
        THEN Fail([q EXCEPT !.conn = "closed"],
                  "SMTP client initialization failed")
        ELSE [q EXCEPT !.pc = "hello", !.client = "open"]

\* client, err := smtp.NewClient(conn, server); defer client.Close()
\* (NewClient closes the connection itself when the greeting fails)
NewClient(p) ==
    LET q == At(p, "newclient")
    IN  IF ~GreetOk(p.server)
        THEN Fail([q EXCEPT !.conn = "closed"],
                  "SMTP client initialization failed")
        ELSE [q EXCEPT !.pc = "hello", !.client = "open",
                       !.defers = Append(@, "client")]

\* client.Hello("localhost"): the error is dropped by the caller, and kept
\* by the client as helloError
Hello(p) ==
    [At(p, "hello") EXCEPT !.pc = "mail", !.helloError = ~HeloOk(p.server)]

\* err = client.Mail("check@yourdomain.com"): Mail returns the client's
\* helloError before it sends anything
Mail(p) ==
    LET q == At(p, "mail")
    IN  IF p.helloError \/ ~MailOk(p.server)
        THEN Fail(q, "MAIL FROM command failed")
        ELSE [q EXCEPT !.pc = "rcpt"]

\* err = client.Rcpt(email); return true, nil
Rcpt(p) ==
    LET q == At(p, "rcpt")
    IN  IF ~RcptOk(p.server, p.email) THEN Fail(q, "RCPT TO command failed")
        ELSE [q EXCEPT !.pc = "return", !.valid = TRUE, !.err = NoError]

\* one deferred call: conn.Close(), or client.Close(), which closes the
\* client's connection too
RunDefer(p, d) ==
    IF d = "client" THEN [p EXCEPT !.client = "closed", !.conn = "closed"]
    ELSE [p EXCEPT !.conn = "closed"]

\* the deferred calls of the stack, last in first out
RECURSIVE RunDefers(_)
RunDefers(p) ==
    IF p.defers = <<>> THEN p
    ELSE LET n == Len(p.defers)
         IN  RunDefers([RunDefer(p, p.defers[n]) EXCEPT
                            !.defers = SubSeq(p.defers, 1, n - 1)])

\* the return of verifyEmailSMTP: its deferred calls run
Return(p) == [RunDefers(p) EXCEPT !.pc = "done"]

\* the probes one step after p, one per answer of the network
ProbeNext(p) ==
    CASE p.pc = "parse"     -> {Parse(p)}
      [] p.pc = "mxcheck"   -> {CheckMX(p, a) : a \in LookupMX(p.domain)}
      [] p.pc = "lookup"    -> {LookupAgain(p, a) : a \in LookupMX(p.domain)}
      [] p.pc = "dial"      -> {Dial(p)}
      [] p.pc = "newclient" -> {NewClient(p)}
      [] p.pc = "hello"     -> {Hello(p)}
      [] p.pc = "mail"      -> {Mail(p)}
      [] p.pc = "rcpt"      -> {Rcpt(p)}
      [] p.pc = "return"    -> {Return(p)}
      [] OTHER              -> {}

\* the finished probes verifyEmailSMTP can reach from p
RECURSIVE ProbeRuns(_)
ProbeRuns(p) ==
    IF p.pc = "done" THEN {p}
    ELSE UNION {ProbeRuns(q) : q \in ProbeNext(p)}

\* the (valid, err) pairs verifyEmailSMTP(email) can return
VerifyEmailSMTP(email) ==
    {[valid |-> p.valid, err |-> p.err] : p \in ProbeRuns(NewProbe(email))}

\* EmailResponse{Email, Valid, Message: "Email exists"}, overwritten on error
EmailResponse(email, valid, err) ==
    IF err # NoError THEN [Email |-> email, Valid |-> FALSE, Message |-> err]
    ELSE [Email |-> email, Valid |-> valid, Message |-> "Email exists"]

---------------------------------------------------------------------------
(* Requests and initial states.                                            *)

\* a request: the route it was posted to, whether its JSON body binds, and
\* the bound payload
SingleRequest(ok, email) ==
    [kind |-> "single", ok |-> ok, email |-> email, emails |-> <<>>]
BulkRequest(ok, emails) ==
    [kind |-> "bulk", ok |-> ok, email |-> <<>>, emails |-> emails]

Invalid == <<"u", "x">>
Unknown == <<"v", "@", "x">>
BatchEmails == {Mailbox, Unknown, Invalid}

RECURSIVE SeqsUpTo(_, _)
SeqsUpTo(S, n) ==
    IF n = 0 THEN {<<>>}
    ELSE LET shorter == SeqsUpTo(S, n - 1)
         IN  shorter \cup {Append(s, x) : s \in shorter, x \in S}

\* var concurrencyLimit := 10
concurrencyLimit == 10

SmallBatches == SeqsUpTo(BatchEmails, MaxBatch)
LargeBatches ==
    {[i \in 1..n |-> Mailbox] : n \in (concurrencyLimit + 1)..MaxLarge}

\* the worlds the batches run against
BatchEnvs ==
    {e \in Envs : /\ e.dns \in {"records", "flaky"}
                  /\ e.smtp["mx1"] \in {"accept", "down"}
                  /\ e.smtp["mx2"] = "accept"}
CalmEnv == [dns |-> "records", smtp |-> [h \in Hosts |-> "accept"]]

Scenarios ==
    {[req |-> SingleRequest(TRUE, s), env |-> e] :
        s \in StringsUpTo(MaxEmailLen), e \in Envs}
    \cup {[req |-> BulkRequest(TRUE, b), env |-> e] :
            b \in SmallBatches, e \in BatchEnvs}
    \cup {[req |-> BulkRequest(TRUE, b), env |-> CalmEnv] : b \in LargeBatches}
    \cup {[req |-> SingleRequest(FALSE, <<>>), env |-> CalmEnv],
          [req |-> BulkRequest(FALSE, <<>>), env |-> CalmEnv]}

NoResponse == [status |-> 0, error |-> "", body |-> <<>>]
NoEntry == [exists |-> FALSE, records |-> <<>>, timestamp |-> 0]

InitHandlers(kind) ==
    /\ hpc = IF kind = "single" THEN "bind" ELSE "idle"
    /\ probe = NewProbe(<<>>)
    /\ response = NoResponse
    /\ dpc = IF kind = "bulk" THEN "bind" ELSE "idle"
    /\ idx = 1
    /\ wg = 0
    /\ sem = 0
    /\ writeMutex = FALSE
    /\ workers = EmptyBag
    /\ events = <<>>

InitCache ==
    /\ mxCache = [d \in Domains |-> NoEntry]
    /\ clock = 0
    /\ callers = EmptyBag
    /\ history = <<>>

Init ==
    /\ \E s \in Scenarios : req = s.req /\ env = s.env
    /\ InitHandlers(req.kind)
    /\ InitCache

---------------------------------------------------------------------------
(* checkEmailHandler.                                                      *)

\* c.ShouldBindJSON(&req): 400 on failure, else verifyEmailSMTP is called
Bind ==
    /\ hpc = "bind"
    /\ IF ~req.ok
       THEN /\ response' = [status |-> 400, error |-> "Invalid request",
                            body |-> <<>>]
            /\ hpc' = "done"
            /\ UNCHANGED probe
       ELSE /\ probe' = NewProbe(req.email)
            /\ hpc' = "probe"
            /\ UNCHANGED response
    /\ UNCHANGED <<env, req, batchVars, cacheVars>>

\* one step of the running verifyEmailSMTP call
ProbeStep(pc) ==
    /\ hpc = "probe"
    /\ probe.pc = pc
    /\ probe' \in ProbeNext(probe)
    /\ UNCHANGED <<env, req, hpc, response, batchVars, cacheVars>>

StepParse == ProbeStep("parse")
StepCheckMX == ProbeStep("mxcheck")
StepLookupAgain == ProbeStep("lookup")
StepDial == ProbeStep("dial")
StepNewClient == ProbeStep("newclient")
StepHello == ProbeStep("hello")
StepMail == ProbeStep("mail")
StepRcpt == ProbeStep("rcpt")
StepReturn == ProbeStep("return")

\* c.JSON(http.StatusOK, response)
Respond ==
    /\ hpc = "probe"
    /\ probe.pc = "done"
    /\ response' = [status |-> 200, error |-> "",
                    body |-> <<EmailResponse(req.email, probe.valid, probe.err)>>]
    /\ hpc' = "done"
    /\ UNCHANGED <<env, req, probe, batchVars, cacheVars>>

CheckEmailHandler ==
    \/ Bind
    \/ StepParse
    \/ StepCheckMX
    \/ StepLookupAgain
    \/ StepDial
    \/ StepNewClient
    \/ StepHello
    \/ StepMail
    \/ StepRcpt
    \/ StepReturn
    \/ Respond

---------------------------------------------------------------------------
(* checkBulkEmailsStreamHandler.                                           *)
(* Goroutines have no identity: the live ones are a bag of records, mail   *)
(* the argument, pc the position, res the EmailResponse once built.        *)

Emails == req.emails

Worker(mail, pc, res) == [mail |-> mail, pc |-> pc, res |-> res]

\* a goroutine that returns its token right after the probe, before it
\* writes its verdict
NextPcReleaseFirst(pc) ==
    CASE pc = "start"   -> "probe"
      [] pc = "probe"   -> "release"
      [] pc = "release" -> "lock"
      [] pc = "lock"    -> "emit"
      [] pc = "emit"    -> "unlock"
      [] OTHER          -> "done"

\* the statements of the goroutine in the order they run: the probe, the
\* guarded write, then the deferred calls, last deferred first
NextPc(pc) ==
    CASE pc = "start"   -> "probe"
      [] pc = "probe"   -> "lock"
      [] pc = "lock"    -> "emit"
      [] pc = "emit"    -> "unlock"
      [] pc = "unlock"  -> "release"
      [] OTHER          -> "done"

\* the bag with one w replaced by v
Moved(w, v) == (workers (-) SetToBag({w})) (+) SetToBag({v})

\* c.ShouldBindJSON(&req); the SSE headers
BulkBind ==
    /\ dpc = "bind"
    /\ IF ~req.ok
       THEN /\ response' = [status |-> 400, error |-> "Invalid request",
                            body |-> <<>>]
            /\ dpc' = "done"
       ELSE /\ dpc' = "loop"
            /\ UNCHANGED response
    /\ UNCHANGED <<env, req, hpc, probe, idx, wg, sem, writeMutex, workers,
                   events, cacheVars>>

\* for _, email := range req.Emails { wg.Add(1)
LoopAdd ==
    /\ dpc = "loop"
    /\ idx <= Len(Emails)
    /\ wg' = wg + 1
    /\ dpc' = "acquire"
    /\ UNCHANGED <<env, req, hpc, probe, response, idx, sem, writeMutex,
                   workers, events, cacheVars>>

\* the range is exhausted
LoopExit ==
    /\ dpc = "loop"
    /\ idx > Len(Emails)
    /\ dpc' = "wait"
    /\ UNCHANGED <<env, req, hpc, probe, response, idx, wg, sem, writeMutex,
                   workers, events, cacheVars>>

\* a send without room: the channel's capacity is ignored
SemUnbounded == TRUE

\* a send on sem can proceed: make(chan struct{}, concurrencyLimit)
SemHasRoom == sem < concurrencyLimit

\* sem <- struct{}{}
Acquire ==
    /\ dpc = "acquire"
    /\ SemHasRoom
    /\ sem' = sem + 1
    /\ dpc' = "spawn"
    /\ UNCHANGED <<env, req, hpc, probe, response, idx, wg, writeMutex,
                   workers, events, cacheVars>>

\* go func(mail string) { ... }(email)
Spawn ==
    /\ dpc = "spawn"
    /\ workers' = workers (+) SetToBag({Worker(Emails[idx], "start", <<>>)})
    /\ idx' = idx + 1
    /\ dpc' = "loop"
    /\ UNCHANGED <<env, req, hpc, probe, response, wg, sem, writeMutex,
                   events, cacheVars>>

\* a goroutine that reads the loop variable instead of its argument
ProbeArgLoopVar(w) ==
    IF idx <= Len(Emails) THEN Emails[idx] ELSE Emails[Len(Emails)]

\* the address a goroutine probes and reports: its argument mail
ProbeArg(w) == w.mail

\* the goroutine calls verifyEmailSMTP(mail)
WorkerEnter ==
    /\ \E w \in BagToSet(workers) :
          /\ w.pc = "start"
          /\ workers' = Moved(w, Worker(w.mail, NextPc(w.pc), <<>>))
    /\ UNCHANGED <<env, req, hpc, probe, response, dpc, idx, wg, sem,
                   writeMutex, events, cacheVars>>

\* a result that the goroutines share: once one probe has failed, the
\* error is seen by the goroutines that build their response later
ResultShared(w, r) ==
    IF \E i \in DOMAIN events : events[i].event = "emailResult"
                                  /\ ~events[i].res[1].Valid
    THEN EmailResponse(ProbeArg(w), FALSE, "SMTP connection failed")
    ELSE EmailResponse(ProbeArg(w), r.valid, r.err)

\* res := EmailResponse{...} built from the goroutine's own valid, err
Result(w, r) == EmailResponse(ProbeArg(w), r.valid, r.err)

\* verifyEmailSMTP returns and the response is built
WorkerReturn ==
    /\ \E w \in BagToSet(workers) :
          /\ w.pc = "probe"
          /\ \E r \in VerifyEmailSMTP(ProbeArg(w)) :
                workers' = Moved(w, Worker(w.mail, NextPc(w.pc),
                                            <<Result(w, r)>>))
    /\ UNCHANGED <<env, req, hpc, probe, response, dpc, idx, wg, sem,
                   writeMutex, events, cacheVars>>

\* a lock that is taken without regard to its holder
MutexIgnored == TRUE

\* writeMutex.Lock() can proceed: the mutex is not held
MutexFree == ~writeMutex

\* writeMutex.Lock()
WorkerLock ==
    /\ MutexFree
    /\ \E w \in BagToSet(workers) :
          /\ w.pc = "lock"
          /\ workers' = Moved(w, Worker(w.mail, NextPc(w.pc), w.res))
    /\ writeMutex' = TRUE
    /\ UNCHANGED <<env, req, hpc, probe, response, dpc, idx, wg, sem,
                   events, cacheVars>>

\* c.SSEvent("emailResult", res); c.Writer.Flush()
WorkerEmit ==
    /\ \E w \in BagToSet(workers) :
          /\ w.pc = "emit"
          /\ events' = Append(events, [event |-> "emailResult", res |-> w.res,
                                       text |-> ""])
          /\ workers' = Moved(w, Worker(w.mail, NextPc(w.pc), w.res))
    /\ UNCHANGED <<env, req, hpc, probe, response, dpc, idx, wg, sem,
                   writeMutex, cacheVars>>

\* a goroutine that returns without writeMutex.Unlock()
WorkerUnlockMissing ==
    /\ \E w \in BagToSet(workers) :
          /\ w.pc = "unlock"
          /\ workers' = Moved(w, Worker(w.mail, NextPc(w.pc), w.res))
    /\ UNCHANGED <<env, req, hpc, probe, response, dpc, idx, wg, sem,
                   writeMutex, events, cacheVars>>

\* writeMutex.Unlock()
WorkerUnlock ==
    /\ \E w \in BagToSet(workers) :
          /\ w.pc = "unlock"
          /\ workers' = Moved(w, Worker(w.mail, NextPc(w.pc), w.res))
    /\ writeMutex' = FALSE
    /\ UNCHANGED <<env, req, hpc, probe, response, dpc, idx, wg, sem,
                   events, cacheVars>>

\* defer func() { <-sem }()
WorkerRelease ==
    /\ sem > 0
    /\ \E w \in BagToSet(workers) :
          /\ w.pc = "release"
          /\ workers' = Moved(w, Worker(w.mail, NextPc(w.pc), w.res))
    /\ sem' = sem - 1
    /\ UNCHANGED <<env, req, hpc, probe, response, dpc, idx, wg, writeMutex,
                   events, cacheVars>>

\* defer wg.Done(): the goroutine ends
WorkerDone ==
    /\ \E w \in BagToSet(workers) :
          /\ w.pc = "done"
          /\ workers' = workers (-) SetToBag({w})
    /\ wg' = wg - 1
    /\ UNCHANGED <<env, req, hpc, probe, response, dpc, idx, sem, writeMutex,
                   events, cacheVars>>

\* a dispatcher that does not wait for its goroutines
WaitSkipped == TRUE

\* wg.Wait() can return: the counter is zero
WaitReturns == wg = 0

\* wg.Wait()
Wait ==
    /\ dpc = "wait"
    /\ WaitReturns
    /\ dpc' = "lock"
    /\ UNCHANGED <<env, req, hpc, probe, response, idx, wg, sem, writeMutex,
                   workers, events, cacheVars>>

\* writeMutex.Lock()
EndLock ==
    /\ dpc = "lock"
    /\ MutexFree
    /\ writeMutex' = TRUE
    /\ dpc' = "emit"
    /\ UNCHANGED <<env, req, hpc, probe, response, idx, wg, sem, workers,
                   events, cacheVars>>

\* c.SSEvent("end", "All emails processed"); c.Writer.Flush()
EndEmit ==
    /\ dpc = "emit"
    /\ events' = Append(events, [event |-> "end", res |-> <<>>,
                                 text |-> "All emails processed"])
    /\ dpc' = "unlock"
    /\ UNCHANGED <<env, req, hpc, probe, response, idx, wg, sem, writeMutex,
                   workers, cacheVars>>

\* writeMutex.Unlock(); the handler returns
EndUnlock ==
    /\ dpc = "unlock"
    /\ writeMutex' = FALSE
    /\ dpc' = "done"
    /\ UNCHANGED <<env, req, hpc, probe, response, idx, wg, sem, workers,
                   events, cacheVars>>

CheckBulkEmailsStreamHandler ==
    \/ BulkBind
    \/ LoopAdd
    \/ LoopExit
    \/ Acquire
    \/ Spawn
    \/ WorkerEnter
    \/ WorkerReturn
    \/ WorkerLock
    \/ WorkerEmit
    \/ WorkerUnlock
    \/ WorkerRelease
    \/ WorkerDone
    \/ Wait
    \/ EndLock
    \/ EndEmit
    \/ EndUnlock

---------------------------------------------------------------------------
(* getMXRecordsCached.  mxCacheMutex guards each access of the map; an     *)
(* access is one step here, so the lock is never seen held.  A running     *)
(* call is a record: pc the next step, start the minute it was called,     *)
(* after the number of calls that had returned when it was called, entry   *)
(* the copy of the map's entry it has read (its local entry, exists),      *)
(* records the answer of its lookup.  The lock is released before the      *)
(* age of the copy is tested, so other calls and the clock may move        *)
(* between the read and the test.                                          *)

\* const mxCacheTTL = 5 * time.Minute
mxCacheTTL == 5

\* a freshness test with the comparison reversed
FreshReversed(entry) == entry.exists /\ clock - entry.timestamp > mxCacheTTL

\* a freshness test that still serves an entry at the age of the TTL
FreshInclusive(entry) == entry.exists /\ clock - entry.timestamp <= mxCacheTTL

\* exists && time.Since(entry.timestamp) < mxCacheTTL
Fresh(entry) == entry.exists /\ clock - entry.timestamp < mxCacheTTL

Call(domain, pc, start, after, entry, records) ==
    [domain |-> domain, pc |-> pc, start |-> start, after |-> after,
     entry |-> entry, records |-> records]

\* a finished call: what it returned and how many DNS queries it made
Returned(call, lookups, err, records) ==
    [domain |-> call.domain, start |-> call.start, after |-> call.after,
     end |-> clock, lookups |-> lookups, err |-> err, records |-> records]

Started == BagCardinality(callers) + Len(history)

\* the call is made: RLock; entry, exists := mxCache[domain]; RUnlock
CachedRead ==
    /\ Started < MaxCalls
    /\ \E d \in Domains :
          callers' = callers (+) SetToBag({Call(d, "check", clock,
                                                Len(history), mxCache[d], <<>>)})
    /\ UNCHANGED <<env, req, handlerVars, batchVars, mxCache, clock, history>>

\* if exists && time.Since(entry.timestamp) < mxCacheTTL: the copy that was
\* read is returned if it is fresh now; if not the call goes on to the lookup
CachedCheck ==
    /\ \E call \in BagToSet(callers) :
          /\ call.pc = "check"
          /\ IF Fresh(call.entry)
             THEN /\ history' = Append(history,
                         Returned(call, 0, FALSE, call.entry.records))
                  /\ callers' = callers (-) SetToBag({call})
             ELSE /\ callers' = (callers (-) SetToBag({call}))
                       (+) SetToBag({Call(call.domain, "lookup", call.start,
                                          call.after, call.entry, <<>>)})
                  /\ UNCHANGED history
    /\ UNCHANGED <<env, req, handlerVars, batchVars, mxCache, clock>>

\* a lookup with negative caching: a failed lookup is remembered as an entry
\* without hosts
CachedLookupNegative ==
    /\ \E call \in BagToSet(callers) :
          /\ call.pc = "lookup"
          /\ \E a \in LookupMX(call.domain) :
                IF a.err \/ Len(a.records) = 0
                THEN /\ history' = Append(history,
                            Returned(call, 1, TRUE, <<>>))
                     /\ callers' = callers (-) SetToBag({call})
                     /\ mxCache' = [mxCache EXCEPT ![call.domain] =
                                       [exists |-> TRUE, records |-> <<>>,
                                        timestamp |-> clock]]
                ELSE /\ callers' = (callers (-) SetToBag({call}))
                          (+) SetToBag({Call(call.domain, "store", call.start,
                                             call.after, call.entry,
                                             a.records)})
                     /\ UNCHANGED <<history, mxCache>>
    /\ UNCHANGED <<env, req, handlerVars, batchVars, clock>>

\* records, err := net.LookupMX(domain): an error or no record is returned
CachedLookup ==
    /\ \E call \in BagToSet(callers) :
          /\ call.pc = "lookup"
          /\ \E a \in LookupMX(call.domain) :
                IF a.err \/ Len(a.records) = 0
                THEN /\ history' = Append(history,
                            Returned(call, 1, TRUE, <<>>))
                     /\ callers' = callers (-) SetToBag({call})
                ELSE /\ callers' = (callers (-) SetToBag({call}))
                          (+) SetToBag({Call(call.domain, "store", call.start,
                                             call.after, call.entry,
                                             a.records)})
                     /\ UNCHANGED history
    /\ UNCHANGED <<env, req, handlerVars, batchVars, mxCache, clock>>

\* mxCache[domain] = mxCacheEntry{records, time.Now()}; return records, nil
CachedStore ==
    /\ \E call \in BagToSet(callers) :
          /\ call.pc = "store"
          /\ mxCache' = [mxCache EXCEPT ![call.domain] =
                            [exists |-> TRUE, records |-> call.records,
                             timestamp |-> clock]]
          /\ history' = Append(history, Returned(call, 1, FALSE, call.records))
          /\ callers' = callers (-) SetToBag({call})
    /\ UNCHANGED <<env, req, handlerVars, batchVars, clock>>

\* a minute passes
Tick ==
    /\ clock < MaxClock
    /\ clock' = clock + 1
    /\ UNCHANGED <<env, req, handlerVars, batchVars, mxCache, callers, history>>

GetMXRecordsCached ==
    \/ CachedRead
    \/ CachedCheck
    \/ CachedLookup
    \/ CachedStore

---------------------------------------------------------------------------
(* The server: one request, served by the handler of its route.            *)

Next == CheckEmailHandler \/ CheckBulkEmailsStreamHandler

Spec == Init /\ [][Next]_vars

(* The batch handler under a fair scheduler: a step that stays possible is  *)
(* taken, be it of the dispatcher or of a goroutine (the Go scheduler runs *)
(* every runnable goroutine, and every probe returns).                     *)

InitBatch == Init /\ req.kind = "bulk"

SpecFair ==
    /\ InitBatch
    /\ [][CheckBulkEmailsStreamHandler]_vars
    /\ WF_vars(CheckBulkEmailsStreamHandler)

(* The resolver, called by a test driver.  After its first call has        *)
(* returned the driver may instead post one address to /check-email and    *)
(* wait for the response.                                                  *)

CacheEnvs == {e \in Envs : e.smtp = [h \in Hosts |-> "accept"]}

InitResolver ==
    /\ req = SingleRequest(TRUE, Mailbox)
    /\ env \in CacheEnvs
    /\ InitHandlers(req.kind)
    /\ InitCache

Warmed == Len(history) = 1 /\ callers = EmptyBag

NextResolver ==
    \/ (hpc = "bind" /\ GetMXRecordsCached)
    \/ (hpc = "bind" /\ Tick)
    \/ (Warmed /\ CheckEmailHandler)

SpecCache == InitResolver /\ [][NextResolver]_vars

---------------------------------------------------------------------------
(* Properties.                                                             *)

\* the positions of the events of one kind
EventsOf(kind) == {i \in DOMAIN events : events[i].event = kind}

\* the verdicts written to the stream, in order of emission
Verdict(i) == events[i].res[1]

\* a served batch: the request was bound by the batch handler
Batch == req.kind = "bulk" /\ req.ok

\* the number of goroutines at a position
CountAtPc(pc) ==
    LET at == {w \in BagToSet(workers) : w.pc = pc}
    IN  BagCardinality([w \in at |-> workers[w]])

SeqToBag(q) ==
    [x \in {q[i] : i \in DOMAIN q} |-> Cardinality({i \in DOMAIN q : q[i] = x})]

\* C1: a batch of N addresses emits exactly N "emailResult" events and one
\* "end" event, and the "end" event is the last one: it is never written
\* while fewer than N verdicts are written, nothing follows it, and the
\* handler returns only after all N + 1 events.
C1_VerdictsThenEnd ==
    /\ Cardinality(EventsOf("emailResult")) <= Len(Emails)
    /\ Cardinality(EventsOf("end")) <= 1
    /\ \A i \in EventsOf("end") :
          /\ i = Len(events)
          /\ Cardinality(EventsOf("emailResult")) = Len(Emails)
    /\ (Batch /\ dpc = "done") =>
          /\ Cardinality(EventsOf("emailResult")) = Len(Emails)
          /\ Cardinality(EventsOf("end")) = 1

\* a batch above the concurrency ceiling has been served to its end
C1_Witness ==
    /\ Batch
    /\ dpc = "done"
    /\ Len(Emails) > concurrencyLimit
    /\ Len(events) = Len(Emails) + 1
    /\ events[Len(events)].event = "end"

\* C2: at most concurrencyLimit goroutines are inside verifyEmailSMTP.
C2_ProbesBounded == CountAtPc("probe") <= concurrencyLimit

\* the ceiling is reached while the dispatcher waits for a token
C2_Witness ==
    /\ CountAtPc("probe") = concurrencyLimit
    /\ dpc = "acquire"
    /\ idx = concurrencyLimit + 1

\* C3: an address without exactly one "@" is refused at the Parse step with
\* "invalid email format", accepted = false, and no DNS query or TCP dial is
\* made for it; the batch reports it the same way.
C3_InvalidFormat ==
    /\ (hpc \in {"probe", "done"} /\ req.ok /\ CountAt(req.email) # 1
            /\ probe.pc # "parse") =>
          /\ probe.trace = <<"parse">>
          /\ ~probe.valid
          /\ probe.err = "invalid email format"
          /\ probe.lookups = 0
          /\ probe.dials = 0
          /\ probe.conn = "none"
    /\ (hpc = "done" /\ req.ok /\ CountAt(req.email) # 1) =>
          response.body = <<[Email |-> req.email, Valid |-> FALSE,
                             Message |-> "invalid email format"]>>
    /\ \A i \in EventsOf("emailResult") :
          CountAt(Verdict(i).Email) # 1 =>
              /\ ~Verdict(i).Valid
              /\ Verdict(i).Message = "invalid email format"

\* an address with two "@" has been answered
C3_Witness ==
    /\ hpc = "done"
    /\ req.ok
    /\ CountAt(req.email) = 2
    /\ response.status = 200
    /\ probe.pc = "done"

\* the probe has ended at one of its two MX queries
MXFailed(p) ==
    /\ p.pc \in {"return", "done"}
    /\ p.trace # <<>>
    /\ p.trace[Len(p.trace)] \in {"mxcheck", "lookup"}

\* C4 (as claimed): whenever an MX query of the probe fails or yields no
\* record, the reason is exactly "no valid MX records found".
C4_NoValidMX ==
    (hpc \in {"probe", "done"} /\ MXFailed(probe)) =>
        /\ ~probe.valid
        /\ probe.err = "no valid MX records found"

FailReasons ==
    {"invalid email format", "no valid MX records found",
     "SMTP connection failed", "SMTP client initialization failed",
     "MAIL FROM command failed", "RCPT TO command failed"}

Listed(v) ==
    \/ v.Valid /\ v.Message = "Email exists"
    \/ ~v.Valid /\ v.Message \in FailReasons

\* C5 (as claimed): every verdict, of the single-address handler or of a
\* batch, is accepted with "Email exists" or refused with one of the six
\* listed reasons.
C5_ReasonsListed ==
    /\ \A i \in DOMAIN response.body : Listed(response.body[i])
    /\ \A i \in EventsOf("emailResult") : Listed(Verdict(i))

\* both calls start and return within a span shorter than the TTL
InWindow(a, b) == b.end - a.start < mxCacheTTL /\ a.end - b.start < mxCacheTTL

\* C6 (as claimed): two resolutions of the same domain within the TTL
\* window make at most one DNS query in total.
C6_OneLookupInWindow ==
    \A i, j \in DOMAIN history :
        (i < j /\ history[i].domain = history[j].domain
               /\ InWindow(history[i], history[j])) =>
            history[i].lookups + history[j].lookups <= 1

\* C6 (amended): two resolutions of the same domain within the TTL window,
\* the second called after the first has returned records, make at most one
\* DNS query in total.
C6_OneLookupAfterSuccess ==
    \A i, j \in DOMAIN history :
        (/\ history[i].domain = history[j].domain
         /\ InWindow(history[i], history[j])
         /\ ~history[i].err
         /\ history[j].after >= i) =>
            history[i].lookups + history[j].lookups <= 1

\* a miss that was stored, then a hit on the same domain
C6_Witness ==
    /\ Len(history) >= 2
    /\ history[1].domain = history[2].domain
    /\ InWindow(history[1], history[2])
    /\ history[2].after >= 1
    /\ history[1].lookups = 1
    /\ ~history[1].err
    /\ history[2].lookups = 0
    /\ history[2].records = history[1].records

\* C7 (as claimed): with a fresh cache entry for the address's domain, the
\* probe makes no DNS query and dials the first host of the cached entry.
C7_ProbeUsesCache ==
    [][(hpc = "probe" /\ probe.pc \in {"mxcheck", "lookup", "dial"}
            /\ Fresh(mxCache[probe.domain])) =>
          /\ probe'.lookups = probe.lookups
          /\ probe'.server \in {probe.server, mxCache[probe.domain].records[1]}
       ]_vars

\* C8: the addresses of the verdicts emitted so far are addresses of the
\* batch, each position reported at most once, and when the handler
\* returns they are the addresses of the batch, duplicates included.
C8_EmailsMatch ==
    LET at == EventsOf("emailResult")
        emitted == [x \in {Verdict(i).Email : i \in at} |->
                       Cardinality({i \in at : Verdict(i).Email = x})]
        given == SeqToBag(Emails)
    IN  /\ Cardinality(EventsOf("end")) = 0 => emitted \sqsubseteq given
        /\ (Batch /\ dpc \in {"lock", "emit", "unlock", "done"}) =>
              /\ emitted \sqsubseteq given
              /\ given \sqsubseteq emitted

\* two different addresses were reported in the reverse of the input order
C8_Witness ==
    /\ Batch
    /\ dpc = "done"
    /\ Len(Emails) = 2
    /\ Emails[1] # Emails[2]
    /\ Verdict(1).Email = Emails[2]
    /\ Verdict(2).Email = Emails[1]

\* the verdicts a probe of the address yields when it runs alone
Alone(email) ==
    {EmailResponse(email, r.valid, r.err) : r \in VerifyEmailSMTP(email)}

C10_Released ==
    (hpc \in {"probe", "done"} /\ probe.pc = "done") =>
        /\ probe.conn # "open"
        /\ probe.client # "open"
        /\ probe.dials > 0 /\ DialOk(probe.server) => probe.conn = "closed"
        /\ "hello" \in {probe.trace[i] : i \in DOMAIN probe.trace} =>
              probe.client = "closed"

\* a probe refused at RCPT TO has returned with both closed
C10_Witness ==
    /\ hpc = "probe"
    /\ probe.pc = "done"
    /\ probe.err = "RCPT TO command failed"
    /\ probe.conn = "closed"
    /\ probe.client = "closed"

\* the DNS gives the same answer to every query
SteadyDNS == env.dns # "flaky"

Writers ==
    CountAtPc("emit") + CountAtPc("unlock")
        + (IF dpc \in {"emit", "unlock"} THEN 1 ELSE 0)

\* C12: at most one writer, goroutine or dispatcher, is between
\* writeMutex.Lock and writeMutex.Unlock, and the mutex is held exactly
\* while there is one.
C12_Serialized ==
    /\ Writers <= 1
    /\ writeMutex <=> Writers = 1

\* a goroutine writes while another one waits for the mutex
C12_Witness ==
    /\ CountAtPc("emit") = 1
    /\ CountAtPc("lock") >= 1
    /\ writeMutex

\* the tokens sent to sem so far, and those received back
Acquired == (idx - 1) + (IF dpc = "spawn" THEN 1 ELSE 0)
Released == Acquired - sem

\* the goroutines that wait for writeMutex or hold it
AtSink == CountAtPc("lock") + CountAtPc("emit") + CountAtPc("unlock")

\* C13 (as claimed): a goroutine has returned its token before it waits
\* for or holds the sink lock, so that while goroutines are at the sink
\* the tokens held are those of the goroutines that are not.
C13_TokenFreeAtSink ==
    AtSink > 0 =>
        sem <= CountAtPc("start") + CountAtPc("probe") + CountAtPc("release")
                 + (IF dpc = "spawn" THEN 1 ELSE 0)

\* C13 (amended): the token is acquired before the probe, and returned
\* only after the verdict is written and the sink lock released: a
\* goroutine at the probe or at the sink holds its token, and every token
\* returned is that of a goroutine whose verdict is written.
C13_EmitThenRelease ==
    /\ sem = CountAtPc("start") + CountAtPc("probe") + AtSink
                + CountAtPc("release") + (IF dpc = "spawn" THEN 1 ELSE 0)
    /\ Cardinality(EventsOf("emailResult")) =
           Released + CountAtPc("unlock") + CountAtPc("release")

\* the only goroutine holds the sink lock and, still, its token
C13_Witness ==
    /\ BagCardinality(workers) = 1
    /\ CountAtPc("emit") = 1
    /\ writeMutex
    /\ sem = 1
    /\ dpc = "wait"

\* C14: when every probe returns and the scheduler is fair, the batch
\* handler returns, for every batch size: it is never stuck on sem, on the
\* wait group or on writeMutex, and a bound batch has then written its
\* "end" event.
C14_Terminates ==
    <>(/\ dpc = "done"
       /\ req.ok => /\ Cardinality(EventsOf("end")) = 1
                    /\ workers = EmptyBag)

\* a batch above the ceiling has returned, every token given back
C14_Witness ==
    /\ Batch
    /\ dpc = "done"
    /\ Len(Emails) > concurrencyLimit
    /\ Cardinality(EventsOf("end")) = 1
    /\ sem = 0
    /\ wg = 0
    /\ workers = EmptyBag

\* C15: a probe that does not return keeps its goroutine inside
\* verifyEmailSMTP.  While concurrencyLimit goroutines are there, no further
\* address can be admitted; while at least one is there, wg.Wait cannot
\* return and the "end" event is neither written nor about to be.  Both
\* last as long as the probes hang.
C15_Starvation ==
    /\ CountAtPc("probe") = concurrencyLimit =>
          /\ sem = concurrencyLimit
          /\ ~ENABLED Acquire
          /\ dpc # "spawn"
    /\ CountAtPc("probe") >= 1 =>
          /\ ~ENABLED Wait
          /\ dpc \notin {"lock", "emit", "unlock", "done"}
          /\ EventsOf("end") = {}

\* ten probes are in flight, the eleventh address waits for a token
C15_Witness ==
    /\ CountAtPc("probe") = concurrencyLimit
    /\ sem = concurrencyLimit
    /\ dpc = "acquire"
    /\ wg = concurrencyLimit + 1
    /\ events = <<>>

\* the steps of the probe in the order of the source; "mxcheck" and
\* "lookup" are the two queries of the MX Check state
StepOrder ==
    <<"parse", "mxcheck", "lookup", "dial", "newclient", "hello", "mail",
      "rcpt">>

\* the reason of a failure at each step, mxReason that of the second query
StepReason(step, mxReason) ==
    CASE step = "parse"     -> "invalid email format"
      [] step = "mxcheck"   -> "no valid MX records found"
      [] step = "lookup"    -> mxReason
      [] step = "dial"      -> "SMTP connection failed"
      [] step = "newclient" -> "SMTP client initialization failed"
      [] step = "mail"      -> "MAIL FROM command failed"
      [] step = "rcpt"      -> "RCPT TO command failed"
      [] OTHER              -> "none"

\* the probe of the single-address handler follows the state machine
ProbeOrdered(mxReason) ==
    (hpc \in {"probe", "done"} /\ req.ok) =>
        /\ Len(probe.trace) <= Len(StepOrder)
        /\ \A i \in DOMAIN probe.trace : probe.trace[i] = StepOrder[i]
        /\ probe.dials <= 1
        /\ probe.dials = 1 => probe.server = probe.mxRecords[1]
        /\ probe.pc \in {"return", "done"} =>
              /\ probe.valid <=> (probe.trace = StepOrder /\ probe.err = NoError)
              /\ probe.valid <=>
                    (probe.trace = StepOrder
                        /\ RcptOk(probe.server, probe.email))
              /\ ~probe.valid =>
                    probe.err =
                        StepReason(probe.trace[Len(probe.trace)], mxReason)

\* C16 (as claimed): the probe takes its steps in the order Parse, MX
\* Check, Connect, SMTP Handshake, HELO, MAIL FROM, RCPT TO, each at most
\* once; the first failing step ends it with the reason of its state, that
\* of MX Check being "no valid MX records found"; it dials once, index 0 of
\* the MX list; it accepts exactly when every step succeeded.
C16_StateMachine == ProbeOrdered("no valid MX records found")

\* the probe of the single-address handler has returned after its HELO
AfterHello ==
    /\ hpc \in {"probe", "done"}
    /\ probe.pc = "done"
    /\ Len(probe.trace) >= 6
    /\ probe.trace[6] = "hello"

\* C17 (as claimed): whatever the outcome of HELO the probe goes on to
\* MAIL FROM, and its verdict is decided by the other steps alone: it
\* accepts exactly when the server accepts MAIL FROM and RCPT TO.
C17_HeloIgnored ==
    AfterHello =>
        /\ Len(probe.trace) >= 7
        /\ probe.trace[7] = "mail"
        /\ probe.valid <=>
              (MailOk(probe.server) /\ RcptOk(probe.server, probe.email))

\* what the code does instead: whatever the outcome of HELO the probe goes
\* on to call MAIL FROM, but the client keeps the HELO error and MAIL FROM
\* returns it, so that a server that rejects HELO is refused with "MAIL
\* FROM command failed" even if it would accept MAIL FROM and RCPT TO.
HeloSurfacesAtMail ==
    AfterHello =>
        /\ Len(probe.trace) >= 7
        /\ probe.trace[7] = "mail"
        /\ probe.valid <=>
              (/\ HeloOk(probe.server)
               /\ MailOk(probe.server)
               /\ RcptOk(probe.server, probe.email))
        /\ ~HeloOk(probe.server) =>
              /\ probe.err = "MAIL FROM command failed"
              /\ Len(probe.trace) = 7

\* a server that rejects HELO only has refused the known mailbox
HeloRefused ==
    /\ AfterHello
    /\ env.smtp[probe.server] = "nohelo"
    /\ probe.email = Mailbox
    /\ ~probe.valid
    /\ probe.err = "MAIL FROM command failed"

\* this step returns a call of getMXRecordsCached, appended to the history
Returns == Len(history') = Len(history) + 1

LastReturn == history'[Len(history')]

\* the calls that leave a position in this step, and those that reach one
Leaves(pc) ==
    {c \in BagToSet(callers) :
        c.pc = pc /\ CopiesIn(c, callers') < CopiesIn(c, callers)}

Arrives(pc) ==
    {c \in BagToSet(callers') :
        c.pc = pc /\ CopiesIn(c, callers') > CopiesIn(c, callers)}

\* C18: a call returns the cached hosts without a DNS query only when the
\* entry it has read exists with an age, at the time of the test, strictly
\* below the TTL of 5 minutes; when the entry is missing or of age >= TTL
\* the call goes on to a DNS query, and every call that was not served
\* makes one; a query that returns records overwrites the entry with these
\* hosts and the time of the write.  An expired entry is never served.
C18_Freshness ==
    [][/\ \A c \in Arrives("check") :
             /\ c.entry = mxCache[c.domain]
             /\ c.start = clock
       /\ \A c \in Leaves("check") :
             IF c.entry.exists /\ clock - c.entry.timestamp < mxCacheTTL
             THEN /\ Returns
                  /\ LastReturn.domain = c.domain
                  /\ LastReturn.lookups = 0
                  /\ ~LastReturn.err
                  /\ LastReturn.records = c.entry.records
                  /\ mxCache' = mxCache
             ELSE /\ ~Returns
                  /\ \E n \in Arrives("lookup") :
                        n.domain = c.domain /\ n.start = c.start
       /\ (Returns /\ LastReturn.lookups = 0) => Leaves("check") # {}
       /\ (Returns /\ Leaves("check") = {}) => LastReturn.lookups = 1
       /\ (Returns /\ LastReturn.lookups = 1 /\ ~LastReturn.err) =>
             /\ Len(LastReturn.records) > 0
             /\ mxCache'[LastReturn.domain] =
                    [exists |-> TRUE, records |-> LastReturn.records,
                     timestamp |-> clock']
      ]_vars

\* an entry stored, and at the age of the TTL a second call of the same
\* domain that has made a new query and has overwritten the entry
C18_Witness ==
    /\ Len(history) = 2
    /\ history[1].domain = history[2].domain
    /\ history[1].lookups = 1
    /\ ~history[1].err
    /\ history[2].after = 1
    /\ history[2].start - history[1].end = mxCacheTTL
    /\ history[2].lookups = 1
    /\ ~history[2].err
    /\ mxCache[history[2].domain].timestamp = history[2].end
    /\ mxCache[history[2].domain].records = history[2].records

\* C19: the cache changes only when a call stores the records of a DNS
\* query that returned at least one, and then only at the key of the
\* call's domain, whatever the entry was and whoever wrote it; a query that
\* fails or returns no record returns an error and leaves the whole cache
\* as it was, an expired entry of that domain included; every entry holds
\* at least one host.
C19_WriteOnSuccess ==
    [][/\ mxCache' # mxCache =>
             \E call \in BagToSet(callers) :
                /\ call.pc = "store"
                /\ Len(call.records) > 0
                /\ mxCache' = [mxCache EXCEPT ![call.domain] =
                                  [exists |-> TRUE, records |-> call.records,
                                   timestamp |-> clock]]
                /\ Returns
                /\ LastReturn.domain = call.domain
                /\ LastReturn.records = call.records
                /\ LastReturn.lookups = 1
                /\ ~LastReturn.err
       /\ (Returns /\ ~LastReturn.err /\ LastReturn.lookups = 1) =>
             mxCache'[LastReturn.domain].records = LastReturn.records
       /\ (Returns /\ LastReturn.err) =>
             /\ mxCache' = mxCache
             /\ LastReturn.lookups = 1
             /\ LastReturn.records = <<>>
       /\ \A d \in Domains :
             mxCache'[d].exists => Len(mxCache'[d].records) > 0
      ]_vars

\* an entry has expired, the query of the next call of its domain has
\* failed, and the entry is still the one that was stored
C19_Witness ==
    /\ Len(history) = 2
    /\ history[1].domain = history[2].domain
    /\ ~history[1].err
    /\ history[2].after = 1
    /\ history[2].start - history[1].end >= mxCacheTTL
    /\ history[2].err
    /\ history[2].lookups = 1
    /\ mxCache[history[1].domain] =
           [exists |-> TRUE, records |-> history[1].records,
            timestamp |-> history[1].end]

\* a call made while the entry was younger than the TTL has tested its
\* copy once the TTL had passed, and has made a DNS query
TestedLate ==
    /\ Len(history) = 2
    /\ history[1].domain = history[2].domain
    /\ ~history[1].err
    /\ history[2].after = 1
    /\ history[2].start - history[1].end < mxCacheTTL
    /\ history[2].lookups = 1

\* two calls of one domain have both missed, both queried and both stored:
\* the entry is that of the one that wrote last
TwoWriters ==
    /\ Len(history) = 2
    /\ history[1].domain = history[2].domain
    /\ history[2].after = 0
    /\ history[1].lookups = 1 /\ history[2].lookups = 1
    /\ ~history[1].err /\ ~history[2].err
    /\ history[1].records # history[2].records
    /\ mxCache[history[2].domain].records = history[2].records

\* the token the dispatcher has sent for a goroutine it has not yet started
Pending == IF dpc = "spawn" THEN 1 ELSE 0

\* the goroutines started and not yet ended
Live == BagCardinality(workers)

\* C20 (as claimed): the tokens held are those of the goroutines started
\* and not yet ended (and of the one about to start), so that at most 10
\* goroutines are live; when "end" is written no token is held.
C20_TokensOfLiveWorkers ==
    Batch =>
        /\ sem = Live + Pending
        /\ Live <= concurrencyLimit
        /\ EventsOf("end") # {} => sem = 0

\* what the code does instead: the tokens held are those of the goroutines
\* started that have not yet returned theirs (and of the one about to
\* start), at most 10; a goroutine returns its token once, as its last step
\* before it signals the wait group, and between the two it is live
\* without a token; every live goroutine is counted by the wait group;
\* when "end" is written no token is held and no goroutine is live.
TokensOfUnreleased ==
    /\ [](Batch =>
            /\ sem = (Live - CountAtPc("done")) + Pending
            /\ sem <= concurrencyLimit
            /\ Live <= wg
            /\ Live <= concurrencyLimit + CountAtPc("done")
            /\ EventsOf("end") # {} => (sem = 0 /\ Live = 0))
    /\ [][/\ sem' < sem =>
                /\ sem' = sem - 1
                /\ CountAtPc("release")' = CountAtPc("release") - 1
                /\ CountAtPc("done")' = CountAtPc("done") + 1
                /\ wg' = wg
          /\ wg' < wg =>
                /\ wg' = wg - 1
                /\ CountAtPc("done")' = CountAtPc("done") - 1
                /\ Live' = Live - 1
                /\ sem' = sem
         ]_vars

\* ten goroutines hold the ten tokens and an eleventh, which has returned
\* its token, has not yet signalled the wait group
ElevenLive ==
    /\ Batch
    /\ Live = concurrencyLimit + 1
    /\ CountAtPc("done") = 1
    /\ sem = concurrencyLimit
    /\ wg = concurrencyLimit + 1

=============================================================================
